---------------------------- MODULE Spec2Model ----------------------------
(***************************************************************************)
(* A model of smutch/sketches: the linspace iterator, the knot-vector      *)
(* builder, the closed-shape generator, the stroke renderer and the        *)
(* still-image composer (aeye) and the animated composer (sand_spline).    *)
(*                                                                         *)
(* Scalars of type f32 are modelled bit-exactly (IEEE-754 binary32,        *)
(* round-to-nearest-even), because the programs accumulate rounded sums.   *)
(***************************************************************************)
EXTENDS Integers, Sequences, FiniteSets, TLC

(***************************************************************************)
(* f32.  A value is a record [cls, sg, m, e]:                              *)
(*   cls = "fin": the number (-1)^sg * m * 2^e, with m = 0 (zero, written  *)
(*                with sg = 0 and e = 0) or 2^23 <= m < 2^24;              *)
(*   cls = "inf": the infinity of sign sg;   cls = "nan": a NaN.           *)
(* Subnormals and the sign of zero are not represented: no operation of    *)
(* the programs reaches them from the inputs enumerated here.              *)
(***************************************************************************)
Pow2(k) == 2 ^ k

F32(sg, m, e) == [cls |-> "fin", sg |-> sg, m |-> m, e |-> e]

F32_ZERO == F32(0, 0, 0)

F32_NAN == [cls |-> "nan", sg |-> 0, m |-> 0, e |-> 0]

F32_INF(sg) == [cls |-> "inf", sg |-> sg, m |-> 0, e |-> 0]

\* Number of significant bits of m, 1 <= m < 2^31.
BitLen(m) == CHOOSE b \in 1..31 : Pow2(b - 1) <= m /\ (b = 31 \/ m < Pow2(b))

\* m with its lowest bit set when inexact (a right shift that "jams" the
\* bits shifted out into the lowest bit kept).
Jam(m, inexact) == IF inexact /\ m % 2 = 0 THEN m + 1 ELSE m

\* The f32 nearest to (-1)^sg * m * 2^e, ties to even; 1 <= m < 2^31.
f32_round(sg, m, e) ==
    LET b == BitLen(m) IN
    IF b <= 24
    THEN F32(sg, m * Pow2(24 - b), e - (24 - b))
    ELSE LET sh   == b - 24
             q    == m \div Pow2(sh)
             r    == m % Pow2(sh)
             half == Pow2(sh - 1)
             up   == r > half \/ (r = half /\ q % 2 = 1)
             q1   == IF up THEN q + 1 ELSE q
             m1   == IF q1 = Pow2(24) THEN Pow2(23) ELSE q1
             e1   == IF q1 = Pow2(24) THEN e + sh + 1 ELSE e + sh
         IN  IF e1 > 104 THEN F32_INF(sg) ELSE F32(sg, m1, e1)

\* `n as f32`, T::from_usize(n): exact below 2^24, rounded above.  A usize is
\* modelled by its value read as a signed 64-bit integer, so a negative n is
\* the wrapped value 2^64 + n, which rounds to 2^64 (for -n < 2^39).
f32_from_usize(n) ==
    IF n = 0 THEN F32_ZERO
    ELSE IF n < 0 THEN F32(0, Pow2(23), 41)
    ELSE f32_round(0, n, 0)

f32_neg(x) == IF x.cls = "nan" \/ (x.cls = "fin" /\ x.m = 0) THEN x
              ELSE [x EXCEPT !.sg = 1 - x.sg]

\* x * 2^k, exactly (finite x).
f32_scale(x, k) == IF x.m = 0 THEN x ELSE [x EXCEPT !.e = x.e + k]

\* |x| >= |y| for finite x, y.
MagGe(x, y) == \/ y.m = 0
               \/ x.m # 0 /\ (x.e > y.e \/ (x.e = y.e /\ x.m >= y.m))

\* x + y for finite nonzero x, y with |x| >= |y|: three guard bits, the
\* smaller operand shifted right with jamming, then one rounding.
AddAligned(x, y) ==
    LET d == x.e - y.e
        A == x.m * 8
        t == y.m * 8
        B == IF d >= 27 THEN 1 ELSE Jam(t \div Pow2(d), t % Pow2(d) # 0)
        S == IF x.sg = y.sg THEN A + B ELSE A - B
    IN  IF S = 0 THEN F32_ZERO ELSE f32_round(x.sg, S, x.e - 3)

f32_add(x, y) ==
    IF x.cls = "nan" \/ y.cls = "nan" THEN F32_NAN
    ELSE IF x.cls = "inf"
         THEN IF y.cls = "inf" /\ y.sg # x.sg THEN F32_NAN ELSE x
    ELSE IF y.cls = "inf" THEN y
    ELSE IF y.m = 0 THEN x
    ELSE IF x.m = 0 THEN y
    ELSE IF MagGe(x, y) THEN AddAligned(x, y) ELSE AddAligned(y, x)

f32_sub(x, y) == f32_add(x, f32_neg(y))

\* Restoring division: k more quotient bits of r / d appended to q.
RECURSIVE LongDiv(_, _, _, _)
LongDiv(r, d, k, q) ==
    IF k = 0 THEN <<q, r>>
    ELSE IF 2 * r >= d THEN LongDiv(2 * r - d, d, k - 1, 2 * q + 1)
         ELSE LongDiv(2 * r, d, k - 1, 2 * q)

f32_div(x, y) ==
    LET sg == IF x.sg = y.sg THEN 0 ELSE 1 IN
    IF x.cls = "nan" \/ y.cls = "nan" THEN F32_NAN
    ELSE IF x.cls = "inf"
         THEN IF y.cls = "inf" THEN F32_NAN ELSE F32_INF(sg)
    ELSE IF y.cls = "inf" THEN F32_ZERO
    ELSE IF y.m = 0
         THEN IF x.m = 0 THEN F32_NAN ELSE F32_INF(sg)
    ELSE IF x.m = 0 THEN F32_ZERO
    ELSE LET qr == LongDiv(x.m % y.m, y.m, 26, x.m \div y.m)
         IN  f32_round(sg, Jam(qr[1], qr[2] # 0), x.e - y.e - 26)

\* The 48-bit product of two 24-bit significands, by 12-bit halves; its top
\* 27 bits are kept and the rest jammed.
f32_mul(x, y) ==
    LET sg == IF x.sg = y.sg THEN 0 ELSE 1 IN
    IF x.cls = "nan" \/ y.cls = "nan" THEN F32_NAN
    ELSE IF x.cls = "inf" \/ y.cls = "inf"
         THEN IF (x.cls = "fin" /\ x.m = 0) \/ (y.cls = "fin" /\ y.m = 0)
              THEN F32_NAN ELSE F32_INF(sg)
    ELSE IF x.m = 0 \/ y.m = 0 THEN F32_ZERO
    ELSE LET xh == x.m \div 4096
             xl == x.m % 4096
             yh == y.m \div 4096
             yl == y.m % 4096
             mid  == xh * yl + xl * yh
             low  == xl * yl + (mid % 4096) * 4096
             high == xh * yh + mid \div 4096 + low \div Pow2(24)
             lrem == low % Pow2(24)
             T    == Jam(high * 8 + lrem \div Pow2(21), lrem % Pow2(21) # 0)
         IN  f32_round(sg, T, x.e + y.e + 21)

\* x < y and x <= y for non-NaN x, y.
f32_lt(x, y) ==
    IF x.cls = "inf" THEN x.sg = 1 /\ ~(y.cls = "inf" /\ y.sg = 1)
    ELSE IF y.cls = "inf" THEN y.sg = 0
    ELSE IF x.m = 0 THEN y.m # 0 /\ y.sg = 0
    ELSE IF y.m = 0 THEN x.sg = 1
    ELSE IF x.sg # y.sg THEN x.sg = 1
    ELSE IF x.sg = 0 THEN ~MagGe(x, y)
    ELSE ~MagGe(y, x)

f32_le(x, y) == x = y \/ f32_lt(x, y)

\* `x as usize`: truncation toward zero, saturating; NaN and negatives to 0.
\* (Values of 2^31 and above are outside the inputs enumerated here.)
f32_as_usize(x) ==
    IF x.cls = "nan" \/ x.sg = 1 \/ x.m = 0 THEN 0
    ELSE IF x.e >= 0 THEN x.m * Pow2(x.e)
    ELSE IF x.e <= -24 THEN 0
    ELSE x.m \div Pow2(-x.e)

(***************************************************************************)
(* usize arithmetic.  `a - b` panics ("attempt to subtract with overflow") *)
(* when the build checks overflow (debug profile) and wraps modulo 2^64    *)
(* otherwise (release profile).                                            *)
(***************************************************************************)
usize_sub(a, b, checks) ==
    [panic |-> checks /\ a < b, v |-> a - b]

\* Ord::max on usize: the comparison is unsigned, so a wrapped (negative)
\* value is above every small one.
usize_max(a, b) ==
    IF (a < 0) = (b < 0) THEN (IF a >= b THEN a ELSE b)
    ELSE IF a < 0 THEN a ELSE b

(***************************************************************************)
(* linspace.rs                                                             *)
(***************************************************************************)
Linspace(increment, n, x, i) ==
    [increment |-> increment, n |-> n, x |-> x, i |-> i]

\* linspace(from, to, n): the iterator, with the divisor it computed kept
\* beside it for the record (the struct itself does not store it).
linspace(from, to, n, checks) ==
    LET d       == usize_sub(n, 1, checks)
        divisor == f32_from_usize(usize_max(d.v, 0))
    IN  IF d.panic
        THEN [status |-> "panic", divisor |-> F32_ZERO,
              it |-> Linspace(F32_ZERO, n, from, 0)]
        ELSE [status |-> "ok", divisor |-> divisor,
              it |-> Linspace(f32_div(f32_sub(to, from), divisor), n, from, 0)]

\* A next() that stops one item early (the comparison off by one).
Linspace_next_short(it) ==
    IF it.i + 1 >= it.n
    THEN [item |-> <<>>, it |-> it]
    ELSE [item |-> <<it.x>>,
          it   |-> [it EXCEPT !.x = f32_add(it.x, it.increment), !.i = it.i + 1]]

\* Iterator::next: the item (<<>> for None, <<x>> for Some(x)) and the
\* iterator afterwards.
Linspace_next(it) ==
    IF it.i = it.n
    THEN [item |-> <<>>, it |-> it]
    ELSE [item |-> <<it.x>>,
          it   |-> [it EXCEPT !.x = f32_add(it.x, it.increment), !.i = it.i + 1]]

\* for_each / collect: next() until None.  An iterator whose n has wrapped
\* yields about 2^64 items: see set_knots.
RECURSIVE Linspace_collect(_, _)
Linspace_collect(it, acc) ==
    LET r == Linspace_next(it) IN
    IF r.item = <<>> THEN acc ELSE Linspace_collect(r.it, acc \o r.item)

(***************************************************************************)
(* set_knots (aeye/src/main.rs and sand_spline/src/main.rs: the same text) *)
(***************************************************************************)
Repeat(v, k) == [j \in 1..k |-> v]

\* status "ok": knots is the vector returned.  "panic": an arithmetic
\* overflow panic.  "abort": the iterator was built with a wrapped n, the
\* vector grows until allocation fails and the process aborts.
set_knots(domain, degree, npoints, checks) ==
    LET n    == usize_sub(npoints, degree, checks)
        l    == linspace(domain[1], domain[2], n.v, checks)
        fail(st) == [status |-> st, knots |-> <<>>]
    IN  IF n.panic \/ l.status = "panic" THEN fail("panic")
        ELSE IF l.it.n < 0 THEN fail("abort")
        ELSE [status |-> "ok",
              knots  |-> Repeat(F32_ZERO, degree)
                         \o Linspace_collect(l.it, <<>>)
                         \o Repeat(domain[2], degree + 1)]

(***************************************************************************)
(* A decimal literal num/den: rustc rounds it to the nearest f32, as the   *)
(* correctly rounded quotient of the two (exactly representable) integers. *)
(***************************************************************************)
Lit(num, den) == f32_div(f32_from_usize(num), f32_from_usize(den))

TAU == F32(0, 13176795, -21)

(***************************************************************************)
(* SmallRng.  The generator is a library type: it is modelled as a         *)
(* deterministic generator with RngMod states (a congruential step, of     *)
(* full period for RngMod = 64).  s is its state, n the number of raw      *)
(* draws taken since seeding (its cursor).  A raw draw is read as 24 bits, *)
(* the bits gen::<f32>() keeps of a u32; both ends 0 and 2^24 - 1 occur.   *)
(***************************************************************************)
RngMod == 64

seed_from_u64(seed) == [s |-> seed % RngMod, n |-> 0]

Rng_raw(rng) == (rng.s * (Pow2(24) - 1)) \div (RngMod - 1)

Rng_step(rng) == [s |-> (5 * rng.s + 3) % RngMod, n |-> rng.n + 1]

\* rng.gen::<f32>(): a multiple of 2^-24 in [0, 1).
gen_f32(rng) ==
    LET u == Rng_raw(rng) IN
    [v |-> IF u = 0 THEN F32_ZERO ELSE f32_scale(f32_from_usize(u), -24),
     rng |-> Rng_step(rng)]

\* rng.gen_range(low, high): low + floor(u * (high - low)), one raw draw
\* (the widening multiply of rand's uniform integer sampling; its rejection
\* zone is empty at 24 bits for the ranges used).
gen_range(rng, low, high) ==
    [v |-> low + (Rng_raw(rng) * (high - low)) \div Pow2(24),
     rng |-> Rng_step(rng)]

(***************************************************************************)
(* gen_circle_points.                                                      *)
(***************************************************************************)
\* geom::Ellipse{rect, resolution}.circumference(): the boundary points of
\* the ellipse in order, `resolution` of them.  A point is kept symbolic:
\* the k-th of `resolution` boundary points of the ellipse of size `radius`.
circumference(radius, resolution) ==
    [k \in 1..resolution |-> [shape |-> "ellipse", radius |-> radius,
                              of |-> resolution, k |-> k - 1]]

\* A wrap that appends the last n_wrap points instead of the first.
wrap_tail(shape_points, n_wrap) ==
    shape_points \o SubSeq(shape_points, Len(shape_points) - n_wrap + 1,
                           Len(shape_points))

\* for v in shape_points[..n_wrap].to_vec() { shape_points.push(v) }
\* (the slice panics when n_wrap exceeds the length: not reachable, as
\* n_wrap <= resolution).
wrap(shape_points, n_wrap) ==
    shape_points \o SubSeq(shape_points, 1, n_wrap)

\* aeye: n_wrap = (n_control_points as f32 * 0.25) as usize.
aeye_gen_circle_points(n_control_points, min_dim, radius_fac) ==
    LET radius == f32_mul(min_dim, radius_fac)
        n_wrap == f32_as_usize(f32_mul(f32_from_usize(n_control_points),
                                       Lit(25, 100)))
    IN  wrap(circumference(radius, n_control_points), n_wrap)

\* sand_spline: n_wrap = (n_control_points as f32 * 0.3) as usize.
sand_gen_circle_points(n_control_points, radius) ==
    LET n_wrap == f32_as_usize(f32_mul(f32_from_usize(n_control_points),
                                       Lit(3, 10)))
    IN  wrap(circumference(radius, n_control_points), n_wrap)

\* `let v = ...;` followed by the code that uses v: the value is computed
\* once, then F is applied to it.
Bind(v, F(_)) == CHOOSE r \in {F(x) : x \in {v}} : TRUE

(***************************************************************************)
(* draw_spline.                                                            *)
(***************************************************************************)
SPLINE_DEGREE == 4

\* bspline::BSpline::new(degree, control_points, knots): the library
\* rejects (panics on) too few control points or a knot vector of the wrong
\* length.
BSpline_new(degree, control_points, knots) ==
    Len(control_points) > degree /\ Len(knots) = Len(control_points) + degree + 1

\* (0..n_grains).map(|p| spline.point(t_p) + pt2(rng.gen(), rng.gen()) * 1.5):
\* the sampled points from p on, each with its two jitter draws, x first.
RECURSIVE sample_grains(_, _, _, _)
sample_grains(rng, p, n_grains, acc) ==
    IF p >= n_grains THEN [cloud |-> acc, rng |-> rng]
    ELSE LET jx == gen_f32(rng)
             jy == gen_f32(jx.rng)
         IN  sample_grains(jy.rng, p + 1, n_grains,
                           Append(acc, [p |-> p, jitter |-> <<jx.v, jy.v>>]))

\* for i_line in 0..n_lines: the control points displaced by the noise
\* field at the third coordinates base + step * (2 i_line) and
\* -base + step * (2 i_line + 1) (kept symbolic: the stroke index and the
\* two multipliers), the spline through them, and its sampled point cloud.
RECURSIVE draw_lines(_, _, _, _, _, _, _)
draw_lines(rng, i_line, n_lines, n_grains, n_ctrl, knots, acc) ==
    IF i_line >= n_lines THEN [lines |-> acc, rng |-> rng, status |-> "ok"]
    ELSE IF ~BSpline_new(SPLINE_DEGREE, [k \in 1..n_ctrl |-> k], knots)
         THEN [lines |-> acc, rng |-> rng, status |-> "panic"]
    ELSE Bind(sample_grains(rng, 0, n_grains, <<>>), LAMBDA g :
              draw_lines(g.rng, i_line + 1, n_lines, n_grains, n_ctrl, knots,
                         Append(acc, [i_line |-> i_line,
                                      noise_z |-> <<i_line * 2, i_line * 2 + 1>>,
                                      n_ctrl |-> n_ctrl,
                                      n_knots |-> Len(knots),
                                      cloud |-> g.cloud])))

\* The pass a draw_spline call adds to the drawing.
SplinePass(shape_points, knots, n_lines, n_grains, magnitude, color, lines) ==
    [op |-> "spline", shape_points |-> shape_points, knots |-> knots,
     n_lines |-> n_lines, n_grains |-> n_grains, magnitude |-> magnitude,
     color |-> color, lines |-> lines]

\* A draw_spline whose strokes are numbered from 1 (for i_line in 1..=n_lines).
aeye_draw_spline_from_one(model, shape_points, n_lines, n_grains, magnitude, color, checks) ==
    LET n == Len(shape_points) IN
    Bind(set_knots(<<F32_ZERO, f32_from_usize(n)>>, SPLINE_DEGREE, n, checks),
         LAMBDA knots :
    IF knots.status # "ok" THEN [model EXCEPT !.status = knots.status]
    ELSE Bind(draw_lines(model.rng, 1, n_lines + 1, n_grains, n, knots.knots, <<>>),
              LAMBDA d :
         [model EXCEPT
            !.rng = d.rng,
            !.status = d.status,
            !.draw = Append(model.draw,
                            SplinePass(shape_points, knots.knots, n_lines,
                                       n_grains, magnitude, color, d.lines))]))

\* aeye: draw_spline(model, shape_points, n_lines, n_grains, magnitude, color)
\* draws through model.rng and appends to model.draw.
aeye_draw_spline(model, shape_points, n_lines, n_grains, magnitude, color, checks) ==
    LET n == Len(shape_points) IN
    Bind(set_knots(<<F32_ZERO, f32_from_usize(n)>>, SPLINE_DEGREE, n, checks),
         LAMBDA knots :
    IF knots.status # "ok" THEN [model EXCEPT !.status = knots.status]
    ELSE Bind(draw_lines(model.rng, 0, n_lines, n_grains, n, knots.knots, <<>>),
              LAMBDA d :
         [model EXCEPT
            !.rng = d.rng,
            !.status = d.status,
            !.draw = Append(model.draw,
                            SplinePass(shape_points, knots.knots, n_lines,
                                       n_grains, magnitude, color, d.lines))]))

\* sand_spline: draw_spline(model, draw) draws through a copy of model.rng
\* (`model.rng.to_owned()`); the model is borrowed immutably.  The result
\* is the drawing.
sand_draw_spline(model, draw, checks) ==
    LET shape == sand_gen_circle_points(10, model.radius)
        n     == Len(shape)
        rng   == model.rng
    IN
    Bind(set_knots(<<F32_ZERO, f32_from_usize(n)>>, SPLINE_DEGREE, n, checks),
         LAMBDA knots :
    IF knots.status # "ok" THEN [status |-> knots.status, draw |-> draw]
    ELSE Bind(draw_lines(rng, 0, model.n_lines, model.n_grains, n,
                         knots.knots, <<>>),
              LAMBDA d :
         [status |-> d.status,
          draw   |-> Append(draw,
                            SplinePass(shape, knots.knots, model.n_lines,
                                       model.n_grains, model.magnitude,
                                       model.color, d.lines))]))

(***************************************************************************)
(* Bounds on the loops of a spline pass.  The programs pass 100 to 1000    *)
(* strokes and 2000 to 12000 grains; a pass of the model draws at most     *)
(* MaxLines strokes of at most MaxGrains grains.                           *)
(***************************************************************************)
MaxLines == 2
MaxGrains == 2

CapLines(n) == IF n > MaxLines THEN MaxLines ELSE n

CapGrains(n) == IF n > MaxGrains THEN MaxGrains ELSE n

(***************************************************************************)
(* aeye: the still-image composer.                                         *)
(***************************************************************************)
COLORS == << <<52, 64, 77>>, <<85, 101, 115>>, <<171, 185, 201>>,
             <<147, 169, 189>>, <<133, 150, 166>> >>

\* rgba8(arr[0], arr[1], arr[2], (alpha * 255.0) as u8)
color_to_rgba8(arr, alpha) ==
    LET a == f32_as_usize(f32_mul(alpha, f32_from_usize(255)))
    IN  [space |-> "rgba8",
         c |-> <<arr[1], arr[2], arr[3], IF a > 255 THEN 255 ELSE a>>]

f32_min(x, y) == IF f32_lt(y, x) THEN y ELSE x

\* model(app): the session state after construction.  rng is the seeded
\* generator, draw the Draw instance (the commands issued since its reset).
\* The loop mode is set to NTimes { number_of_updates: 202 }.
aeye_model_entropy(app) ==
    [rng |-> seed_from_u64(38274903 + app), draw |-> <<>>, status |-> "ok",
     texture_size |-> <<2160, 3840>>, number_of_updates |-> 202]

aeye_model(app) ==
    [rng |-> seed_from_u64(38274903), draw |-> <<>>, status |-> "ok",
     texture_size |-> <<2160, 3840>>, number_of_updates |-> 202]

\* A control-point count without its offset of 10.
iris_n_control_points_small(c) == f32_as_usize(f32_mul(f32_from_usize(10), c))

\* The control-point count of an iris frame from its draw c in [0, 1).
iris_n_control_points(c) == f32_as_usize(f32_mul(f32_from_usize(10), c)) + 10

\* The radial points linspace(from, to, n).map(|r| pt2(r cos, r sin)).
iris_points(from, to, n, theta, checks) ==
    LET l == linspace(from, to, n, checks) IN
    IF l.status # "ok" \/ l.it.n < 0 THEN <<>>
    ELSE LET rs == Linspace_collect(l.it, <<>>) IN
         [k \in 1..Len(rs) |-> [shape |-> "ray", theta |-> theta, r |-> rs[k]]]

\* An update that also captures the texture on the first frame.
aeye_captures_early(nth) == nth = 201 \/ nth = 0

\* if nth == 201 { capture the texture; save "aeye.png" }
aeye_captures(nth) == nth = 201

\* update(app, model, _): the model after the update of frame nth.
aeye_update(model, nth, checks) ==
    LET m0      == [model EXCEPT !.draw = <<>>]
        w       == f32_from_usize(model.texture_size[1])
        h       == f32_from_usize(model.texture_size[2])
        min_dim == f32_min(w, h)
        ellipse(radius, color) ==
            [op |-> "ellipse", radius |-> radius, color |-> color]
    IN  CASE nth = 0 ->
               LET m1 == [m0 EXCEPT !.draw =
                           << [op |-> "background", color |-> "WHITE"],
                              ellipse(f32_mul(f32_mul(min_dim, Lit(5, 10)), Lit(75, 100)),
                                      color_to_rgba8(COLORS[2], Lit(1, 1))) >>]
               IN  aeye_draw_spline(m1,
                       aeye_gen_circle_points(25, min_dim, Lit(75, 100)),
                       CapLines(400), CapGrains(6000 * 2), f32_from_usize(80 * 2),
                       color_to_rgba8(COLORS[1], Lit(2, 100)), checks)
          [] nth \in 1..200 ->
               LET t     == gen_f32(m0.rng)
                   theta == f32_mul(t.v, TAU)
                   r     == gen_f32(t.rng)
                   max_r == f32_mul(f32_add(f32_mul(Lit(1, 10), r.v), Lit(7, 10)),
                                    Lit(5, 10))
                   c     == gen_f32(r.rng)
                   n_control_points == iris_n_control_points(c.v)
                   k     == gen_range(c.rng, 0, 5)
                   color == color_to_rgba8(COLORS[k.v + 1], Lit(2, 100))
               IN  aeye_draw_spline([m0 EXCEPT !.rng = k.rng],
                       iris_points(f32_mul(Lit(1, 10), min_dim),
                                   f32_mul(max_r, min_dim),
                                   n_control_points, theta, checks),
                       CapLines(100), CapGrains(1000 * 3), f32_from_usize(80 * 3),
                       color, checks)
          [] nth = 201 ->
               LET m1 == [m0 EXCEPT !.draw =
                           << ellipse(f32_mul(f32_mul(min_dim, Lit(5, 10)), Lit(25, 100)),
                                      [space |-> "rgb",
                                       c |-> <<Lit(2, 10), Lit(2, 10), Lit(2, 10)>>]) >>]
                   m2 == aeye_draw_spline(m1,
                             aeye_gen_circle_points(25, min_dim, Lit(25, 100)),
                             CapLines(200), CapGrains(1000 * 3), f32_from_usize(20 * 3),
                             color_to_rgba8(COLORS[2], Lit(2, 100)), checks)
               IN  IF m2.status # "ok" THEN m2
                   ELSE aeye_draw_spline(m2,
                             aeye_gen_circle_points(8, min_dim, Lit(1, 10)),
                             CapLines(200 * 2), CapGrains(1000 * 2), f32_from_usize(80 * 2),
                             [space |-> "rgba",
                              c |-> <<Lit(1, 1), Lit(1, 1), Lit(1, 1), Lit(2, 100)>>],
                             checks)
          [] OTHER -> m0

(***************************************************************************)
(* sand_spline: the animated composer.                                     *)
(***************************************************************************)
NFRAMES == 1800

\* model(app): radius is w.min(h) * 0.4 of the window (its size is the
\* windowing library's default: kept symbolic).
sand_model ==
    [rng |-> seed_from_u64(6382987), radius |-> "w.min(h) * 0.4",
     n_lines |-> CapLines(1000), n_grains |-> CapGrains(8000),
     magnitude |-> f32_from_usize(300),
     color |-> [space |-> "rgba", c |-> <<F32_ZERO, F32_ZERO, F32_ZERO, Lit(1, 100)>>],
     offset |-> [value |-> 1]]

\* update: model.offset = ease::sine::ease_in_out(nth, 1.0, 4.0, NFRAMES)
\* (kept symbolic: the arguments of the easing function).
sand_update(model, nth) ==
    [model EXCEPT !.offset = [ease_in_out |-> <<nth, 1, 4, NFRAMES>>]]

\* view: clear the frame, draw the spline, capture frames/frame-<nth>.png.
sand_view(model, nth, checks) ==
    Bind(sand_draw_spline(model, <<[op |-> "clear", color |-> <<236, 230, 220>>]>>,
                          checks),
         LAMBDA d : [status |-> d.status, draw |-> d.draw, capture |-> nth])

(***************************************************************************)
(* State.  overflow_checks is the build profile (rustc's overflow-checks:  *)
(* on in a debug build, off in a release build).  Each of the other        *)
(* variables belongs to one specification below and is idle in the others. *)
(***************************************************************************)
VARIABLES
    overflow_checks,  \* BOOLEAN: the build panics on usize overflow
    ls,               \* a linspace call and the iteration of its result
    kn,               \* a set_knots call
    shp,              \* a gen_circle_points call
    stk,              \* a draw_spline call
    aeye,             \* the runs of the aeye application
    sand              \* the sand_spline application

vars == <<overflow_checks, ls, kn, shp, stk, aeye, sand>>

Idle == [pc |-> "idle"]

\* Bounds of the enumerated inputs.
MaxVal == 3        \* from, to, domain.start, domain.end: integers up to MaxVal
MaxN == 5          \* linspace's n
MaxNones == 2      \* next() calls after the iterator is exhausted
MaxDegree == 4     \* set_knots' degree
MaxPoints == 12    \* set_knots' npoints (12 and 13 make 2^3-step sums inexact)

\* The f32 of the integer k (k may be negative).
f32_of_int(k) == IF k < 0 THEN f32_neg(f32_from_usize(-k)) ELSE f32_from_usize(k)

\* from / to values: small integers of both signs, and two large
\* neighbours whose half-way step is absorbed by rounding.
Scalars == {f32_of_int(k) : k \in (-1)..MaxVal}
           \cup {F32(0, Pow2(23), 1), F32(0, Pow2(23) + 1, 1)}

(***************************************************************************)
(* SpecLinspace: linspace(from, to, n), then next() until MaxNones Nones.  *)
(***************************************************************************)
InitLinspace ==
    /\ overflow_checks \in BOOLEAN
    /\ \E from \in Scalars, to \in Scalars, n \in 0..MaxN :
          ls = [pc |-> "call", from |-> from, to |-> to, n |-> n,
                res |-> [status |-> "none", divisor |-> F32_ZERO,
                         it |-> Linspace(F32_ZERO, 0, F32_ZERO, 0)],
                out |-> <<>>, last |-> <<>>, nones |-> 0]
    /\ kn = Idle /\ shp = Idle /\ stk = Idle /\ aeye = Idle /\ sand = Idle

\* The call returns (or panics).
LinspaceCall ==
    /\ ls.pc = "call"
    /\ LET r == linspace(ls.from, ls.to, ls.n, overflow_checks) IN
       ls' = [ls EXCEPT !.res = r,
                        !.pc = IF r.status = "ok" THEN "iter" ELSE "panicked"]
    /\ UNCHANGED <<overflow_checks, kn, shp, stk, aeye, sand>>

\* One call of next() on the iterator.
LinspaceNext ==
    /\ ls.pc = "iter"
    /\ ls.nones < MaxNones
    /\ LET r == Linspace_next(ls.res.it) IN
       ls' = [ls EXCEPT !.res.it = r.it,
                        !.out = ls.out \o r.item,
                        !.last = r.item,
                        !.nones = IF r.item = <<>> THEN ls.nones + 1 ELSE ls.nones]
    /\ UNCHANGED <<overflow_checks, kn, shp, stk, aeye, sand>>

NextLinspace == LinspaceCall \/ LinspaceNext

SpecLinspace == InitLinspace /\ [][NextLinspace]_vars

(***************************************************************************)
(* SpecKnots: one call set_knots(domain, degree, npoints).                 *)
(***************************************************************************)
InitKnots ==
    /\ overflow_checks \in BOOLEAN
    /\ ls = Idle /\ shp = Idle /\ stk = Idle /\ aeye = Idle /\ sand = Idle
    /\ \E s \in 0..1, e \in 0..MaxVal, d \in 0..MaxDegree, p \in 0..MaxPoints :
          /\ s <= e
          /\ kn = [pc |-> "call", domain |-> <<f32_of_int(s), f32_of_int(e)>>,
                   degree |-> d, npoints |-> p,
                   res |-> [status |-> "none", knots |-> <<>>]]

SetKnots ==
    /\ kn.pc = "call"
    /\ kn' = [kn EXCEPT !.pc = "done",
                        !.res = set_knots(kn.domain, kn.degree, kn.npoints,
                                          overflow_checks)]
    /\ UNCHANGED <<overflow_checks, ls, shp, stk, aeye, sand>>

NextKnots == SetKnots

SpecKnots == InitKnots /\ [][NextKnots]_vars

(***************************************************************************)
(* SpecShape: one call of gen_circle_points of either program.             *)
(***************************************************************************)
MaxRes == 40       \* the resolutions enumerated (the programs use 8, 10, 25)

MIN_DIM == f32_from_usize(2160)

InitShape ==
    /\ overflow_checks \in BOOLEAN
    /\ ls = Idle /\ kn = Idle /\ stk = Idle /\ aeye = Idle /\ sand = Idle
    /\ \E prog \in {"aeye", "sand"}, r \in 1..MaxRes :
          shp = [pc |-> "call", prog |-> prog, resolution |-> r, points |-> <<>>]

GenCirclePoints ==
    /\ shp.pc = "call"
    /\ shp' = [shp EXCEPT
                 !.pc = "done",
                 !.points = IF shp.prog = "aeye"
                            THEN aeye_gen_circle_points(shp.resolution, MIN_DIM,
                                                        Lit(75, 100))
                            ELSE sand_gen_circle_points(shp.resolution,
                                                        sand_model.radius)]
    /\ UNCHANGED <<overflow_checks, ls, kn, stk, aeye, sand>>

NextShape == GenCirclePoints

SpecShape == InitShape /\ [][NextShape]_vars

(***************************************************************************)
(* SpecStroke: one call of draw_spline of either program, on a session     *)
(* whose generator has been seeded.                                        *)
(***************************************************************************)
MaxSeed == 3       \* the seeds enumerated

InitStroke ==
    /\ overflow_checks \in BOOLEAN
    /\ ls = Idle /\ kn = Idle /\ shp = Idle /\ aeye = Idle /\ sand = Idle
    /\ \E prog \in {"aeye", "sand"}, nl \in 0..MaxLines, ng \in 0..MaxGrains,
          seed \in 0..MaxSeed :
          stk = [pc |-> "call", prog |-> prog, n_lines |-> nl, n_grains |-> ng,
                 rng_before |-> seed_from_u64(seed),
                 rng_after |-> seed_from_u64(seed),
                 draw |-> <<>>, status |-> "none"]

\* The call; rng_after is the session's generator (model.rng) after it.
DrawSpline ==
    /\ stk.pc = "call"
    /\ IF stk.prog = "aeye"
       THEN \E m \in {aeye_draw_spline(
                        [aeye_model(0) EXCEPT !.rng = stk.rng_before],
                        aeye_gen_circle_points(8, MIN_DIM, Lit(1, 10)),
                        stk.n_lines, stk.n_grains, f32_from_usize(160),
                        color_to_rgba8(COLORS[1], Lit(2, 100)), overflow_checks)} :
               stk' = [stk EXCEPT !.pc = "done", !.rng_after = m.rng,
                                  !.draw = m.draw, !.status = m.status]
       ELSE \E model \in {[sand_model EXCEPT !.rng = stk.rng_before,
                                             !.n_lines = stk.n_lines,
                                             !.n_grains = stk.n_grains]} :
            \E d \in {sand_draw_spline(model, <<>>, overflow_checks)} :
               stk' = [stk EXCEPT !.pc = "done", !.rng_after = model.rng,
                                  !.draw = d.draw, !.status = d.status]
    /\ UNCHANGED <<overflow_checks, ls, kn, shp, aeye, sand>>

NextStroke == DrawSpline

SpecStroke == InitStroke /\ [][NextStroke]_vars

(***************************************************************************)
(* Spec: the two applications running.  aeye runs twice (two executions   *)
(* of the same build); a run steps only while it leads the other by less   *)
(* than MaxLead frames (the runs do not interact: this only bounds the     *)
(* interleavings).  sand_spline is followed for MaxSandFrames frames.      *)
(***************************************************************************)
MaxLead == 1
MaxSandFrames == 2

Runs == {1, 2}

\* What one update issued, kept for every frame of a run: the draw
\* commands' kinds and, per spline pass, the sizes and stroke indices.
PassDigest(pass) ==
    [shape   |-> IF Len(pass.shape_points) = 0 THEN "none"
                 ELSE pass.shape_points[1].shape,
     n_ctrl  |-> Len(pass.shape_points),
     n_knots |-> Len(pass.knots),
     n_lines |-> pass.n_lines,
     n_grains |-> pass.n_grains,
     i_lines |-> [k \in 1..Len(pass.lines) |-> pass.lines[k].i_line]]

FrameDigest(nth, model, captured) ==
    LET splines == SelectSeq(model.draw, LAMBDA c : c.op = "spline") IN
    [nth      |-> nth,
     ops      |-> [k \in 1..Len(model.draw) |-> model.draw[k].op],
     passes   |-> [k \in 1..Len(splines) |-> PassDigest(splines[k])],
     captured |-> captured,
     rng      |-> model.rng]

Init ==
    /\ overflow_checks \in BOOLEAN
    /\ ls = Idle /\ kn = Idle /\ shp = Idle /\ stk = Idle
    /\ aeye = [r \in Runs |->
                 [model |-> aeye_model(r), frames |-> 0, updates |-> 0,
                  snapshots |-> 0, saved |-> 0, status |-> "running",
                  log |-> <<>>]]
    /\ sand = [model |-> sand_model, frames |-> 0, updates |-> 0,
               pc |-> "update", draw |-> <<>>, captured |-> <<>>,
               status |-> "running"]

\* One pass of aeye's loop: update (the frame counter is the window's
\* elapsed_frames, one per pass), then view, which only copies the texture.
AeyeUpdate(r) ==
    LET a   == aeye[r]
        nth == a.frames
    IN  /\ a.status = "running"
        /\ a.updates < a.model.number_of_updates
        /\ \A q \in Runs : a.frames < aeye[q].frames + MaxLead
        /\ \E m \in {aeye_update(a.model, nth, overflow_checks)} :
           \E cap \in {m.status = "ok" /\ aeye_captures(nth)} :
           aeye' = [aeye EXCEPT ![r] =
             [a EXCEPT !.model = m,
                       !.frames = nth + 1,
                       !.updates = a.updates + 1,
                       !.snapshots = IF cap THEN a.snapshots + 1 ELSE a.snapshots,
                       !.status = IF m.status = "ok" THEN "running" ELSE "panicked",
                       !.log = Append(a.log, FrameDigest(nth, m, cap))]]
        /\ UNCHANGED <<overflow_checks, ls, kn, shp, stk, sand>>

\* exit: after the last update, wait for the snapshots requested to be saved.
AeyeExit(r) ==
    LET a == aeye[r] IN
    /\ a.status = "running"
    /\ a.updates = a.model.number_of_updates
    /\ aeye' = [aeye EXCEPT ![r] = [a EXCEPT !.status = "exited",
                                             !.saved = a.snapshots]]
    /\ UNCHANGED <<overflow_checks, ls, kn, shp, stk, sand>>

SandLimit == IF NFRAMES > MaxSandFrames THEN MaxSandFrames ELSE NFRAMES

SandUpdate ==
    /\ sand.status = "running" /\ sand.pc = "update"
    /\ sand.updates < SandLimit
    /\ sand' = [sand EXCEPT !.model = sand_update(sand.model, sand.frames),
                            !.updates = sand.updates + 1,
                            !.pc = "view"]
    /\ UNCHANGED <<overflow_checks, ls, kn, shp, stk, aeye>>

SandView ==
    /\ sand.status = "running" /\ sand.pc = "view"
    /\ \E v \in {sand_view(sand.model, sand.frames, overflow_checks)} :
       sand' = [sand EXCEPT
                  !.draw = v.draw,
                  !.captured = IF v.status = "ok"
                               THEN Append(sand.captured, v.capture)
                               ELSE sand.captured,
                  !.frames = sand.frames + 1,
                  !.status = IF v.status = "ok" THEN "running" ELSE "panicked",
                  !.pc = "update"]
    /\ UNCHANGED <<overflow_checks, ls, kn, shp, stk, aeye>>

Next ==
    \/ \E r \in Runs : AeyeUpdate(r)
    \/ \E r \in Runs : AeyeExit(r)
    \/ SandUpdate
    \/ SandView

Spec == Init /\ [][Next]_vars

(***************************************************************************)
(* Properties of linspace (SpecLinspace).                                  *)
(***************************************************************************)
f32_abs(x) == IF x.cls = "nan" THEN x ELSE [x EXCEPT !.sg = 0]

f32_max(x, y) == IF f32_lt(x, y) THEN y ELSE x

\* |x - y| <= n * 2^-22 * mag: the tolerance granted to a rounded linspace.
Near(x, y, n, mag) ==
    f32_le(f32_abs(f32_sub(x, y)),
           f32_mul(f32_from_usize(n), f32_scale(mag, -22)))

\* The step linspace computes for n >= 2, and the largest magnitude of the
\* two ends.
LsStep == f32_div(f32_sub(ls.to, ls.from), f32_from_usize(ls.n - 1))

LsMag == f32_max(f32_abs(ls.from), f32_abs(ls.to))

\* The iteration has returned None at least once.
LsExhausted == ls.pc = "iter" /\ ls.nones >= 1

LsIncreasing(strict) ==
    \A k \in 1..(Len(ls.out) - 1) :
        IF strict THEN f32_lt(ls.out[k], ls.out[k + 1])
        ELSE f32_le(ls.out[k], ls.out[k + 1])

LsDecreasing(strict) ==
    \A k \in 1..(Len(ls.out) - 1) :
        IF strict THEN f32_lt(ls.out[k + 1], ls.out[k])
        ELSE f32_le(ls.out[k + 1], ls.out[k])

\* C3 as stated: for n >= 2 the iteration yields exactly n values, the
\* first equal to from, the last equal to to, consecutive values differing
\* by (to - from) / (n - 1), strictly monotonic when from # to, and None
\* ever after.
C3_Original ==
    (ls.pc = "iter" /\ ls.n >= 2) =>
        /\ Len(ls.out) <= ls.n
        /\ Len(ls.out) >= 1 => ls.out[1] = ls.from
        /\ \A k \in 1..(Len(ls.out) - 1) :
              f32_sub(ls.out[k + 1], ls.out[k]) = LsStep
        /\ ls.from # ls.to =>
              IF f32_lt(ls.from, ls.to) THEN LsIncreasing(TRUE)
              ELSE LsDecreasing(TRUE)
        /\ LsExhausted =>
              /\ Len(ls.out) = ls.n
              /\ ls.out[ls.n] = ls.to
              /\ ls.last = <<>>

\* C3 (amended): for n >= 2 the iteration yields exactly n values and None
\* ever after; the first value is from; each value is the f32 sum of its
\* predecessor and the f32 step (to - from) / (n - 1); the values are
\* monotonic in the direction of to - from, strictly when the step is at
\* least two ulps of max(|from|, |to|); and the last value is within
\* n * 2^-22 * max(|from|, |to|) of to.
C3_LinspaceRounded ==
    (ls.pc = "iter" /\ ls.n >= 2) =>
        /\ ls.res.status = "ok"
        /\ Len(ls.out) <= ls.n
        /\ Len(ls.out) >= 1 => ls.out[1] = ls.from
        /\ \A k \in 1..(Len(ls.out) - 1) :
              ls.out[k + 1] = f32_add(ls.out[k], LsStep)
        /\ f32_le(ls.from, ls.to) => LsIncreasing(FALSE)
        /\ f32_le(ls.to, ls.from) => LsDecreasing(FALSE)
        /\ f32_le(f32_scale(F32(0, Pow2(23), LsMag.e), -22), f32_abs(LsStep)) =>
              IF f32_lt(ls.from, ls.to) THEN LsIncreasing(TRUE)
              ELSE LsDecreasing(TRUE)
        /\ ls.nones = 0 => Len(ls.out) = ls.res.it.i
        /\ LsExhausted =>
              /\ Len(ls.out) = ls.n
              /\ ls.last = <<>>
              /\ Near(ls.out[ls.n], ls.to, ls.n, LsMag)

\* A run to exhaustion whose last value is not to: rounding has happened.
C3_Witness ==
    /\ LsExhausted /\ ls.n >= 3 /\ ls.nones = MaxNones
    /\ Len(ls.out) = ls.n
    /\ ls.out[ls.n] # ls.to

\* C4 as stated: for n <= 1 linspace does not underflow n - 1 and divides
\* by max(n - 1, 1), never by zero; with n = 1 the sequence is exactly
\* <<from>>.
C4_ClampedDivisor ==
    (ls.pc # "call" /\ ls.n <= 1) =>
        /\ ls.res.status = "ok"
        /\ ls.res.divisor = f32_from_usize(1)
        /\ (ls.n = 1 /\ LsExhausted) => ls.out = <<ls.from>>

(***************************************************************************)
(* Properties of set_knots (SpecKnots).                                    *)
(***************************************************************************)
NonDecreasing(v) == \A k \in 1..(Len(v) - 1) : f32_le(v[k], v[k + 1])

\* C1 as stated: for npoints >= degree + 1 the vector returned has length
\* npoints + degree + 1, is non-decreasing, starts with degree zeros, goes
\* on with npoints - degree values evenly spaced from domain.start to
\* domain.end, and ends with degree + 1 copies of domain.end.  (The spacing
\* is read up to f32 rounding: each interior value is its predecessor plus
\* the f32 step, and the last one is near domain.end.)
C1_KnotVector ==
    (kn.pc = "done" /\ kn.npoints >= kn.degree + 1) =>
        LET v    == kn.res.knots
            d    == kn.degree
            k    == kn.npoints - kn.degree
            step == f32_div(f32_sub(kn.domain[2], kn.domain[1]),
                            f32_from_usize(k - 1))
        IN  /\ kn.res.status = "ok"
            /\ Len(v) = kn.npoints + d + 1
            /\ \A j \in 1..d : v[j] = F32_ZERO
            /\ v[d + 1] = kn.domain[1]
            /\ \A j \in (d + 1)..(d + k - 1) : v[j + 1] = f32_add(v[j], step)
            /\ k >= 2 => Near(v[d + k], kn.domain[2], k, kn.domain[2])
            /\ \A j \in (d + k + 1)..(d + k + d + 1) : v[j] = kn.domain[2]
            /\ NonDecreasing(v)

\* C2 as stated: a call with npoints < degree + 1 ends with an
\* InvalidShapeError and returns no vector.
C2_InvalidShape ==
    (kn.pc = "done" /\ kn.npoints < kn.degree + 1) =>
        kn.res.status = "InvalidShapeError"

(***************************************************************************)
(* Properties of gen_circle_points (SpecShape).                            *)
(***************************************************************************)
\* floor(r * wrap_fraction), in integers: r / 4 in aeye, 3 r / 10 in
\* sand_spline.
WrapCount(prog, r) == IF prog = "aeye" THEN r \div 4 ELSE (3 * r) \div 10

ShapeRadius(prog) ==
    IF prog = "aeye" THEN f32_mul(MIN_DIM, Lit(75, 100)) ELSE sand_model.radius

\* C5: gen_circle_points(r) returns r + floor(r * wrap_fraction) points
\* (wrap_fraction 0.25 in aeye, 0.3 in sand_spline); the last
\* floor(r * wrap_fraction) of them are the first floor(r * wrap_fraction),
\* in order, and the first r are the boundary points.
C5_Wrap ==
    shp.pc = "done" =>
        LET r   == shp.resolution
            w   == WrapCount(shp.prog, r)
            pts == shp.points
        IN  /\ Len(pts) = r + w
            /\ SubSeq(pts, r + 1, r + w) = SubSeq(pts, 1, w)
            /\ SubSeq(pts, 1, r) = circumference(ShapeRadius(shp.prog), r)

\* sand_spline's shape of resolution 8 + 2, and aeye's of resolution 25 + 6.
C5_Witness ==
    /\ shp.pc = "done"
    /\ \/ shp.prog = "sand" /\ shp.resolution = 8 /\ Len(shp.points) = 10
       \/ shp.prog = "aeye" /\ shp.resolution = 25 /\ Len(shp.points) = 31
    /\ shp.points[shp.resolution + 1] = shp.points[1]
    /\ shp.points[2] # shp.points[1]

(***************************************************************************)
(* Properties of draw_spline (SpecStroke).                                 *)
(***************************************************************************)
\* The strokes of the spline pass the call has drawn.
StrokeLines == IF stk.draw = <<>> THEN <<>> ELSE stk.draw[Len(stk.draw)].lines

\* C6 as stated: a draw_spline call of n_lines strokes of n_grains samples
\* leaves the session's generator 2 * n_grains * n_lines draws further
\* (2 * n_grains per stroke); with n_grains = 0 the point clouds are empty
\* and the generator's cursor is where it was.
C6_RngCursor ==
    stk.pc = "done" =>
        /\ stk.status = "ok"
        /\ Len(StrokeLines) = stk.n_lines
        /\ \A k \in 1..Len(StrokeLines) :
              Len(StrokeLines[k].cloud) = stk.n_grains
        /\ stk.rng_after.n = stk.rng_before.n + 2 * stk.n_grains * stk.n_lines
        /\ stk.n_grains = 0 => stk.rng_after = stk.rng_before

(***************************************************************************)
(* Properties of the composers (Spec).                                     *)
(***************************************************************************)
PassShapes(f) == [j \in 1..Len(f.passes) |-> f.passes[j].shape]

\* Frame numbers past the last phase that are tried on every state.
MaxBeyond == 3

\* C7: what an update of aeye issues depends on nth alone: frame 0 the
\* background, one filled circle and one closed-shape spline pass; frames
\* 1..200 one radial spline pass and nothing else; frame 201 the pupil
\* circle and two closed-shape passes, and the only capture of the texture;
\* any later frame nothing.  The frames of a run come in this order and a
\* run that exits has saved exactly one image.
C7_Phases ==
    \A r \in Runs :
        LET a == aeye[r] IN
        /\ a.status # "panicked"
        /\ Len(a.log) = a.frames
        /\ a.updates = a.frames
        /\ \A k \in 1..Len(a.log) :
              LET f == a.log[k] IN
              /\ f.nth = k - 1
              /\ CASE f.nth = 0 ->
                        /\ f.ops = <<"background", "ellipse", "spline">>
                        /\ PassShapes(f) = <<"ellipse">>
                   [] f.nth \in 1..200 ->
                        /\ f.ops = <<"spline">>
                        /\ PassShapes(f) = <<"ray">>
                   [] f.nth = 201 ->
                        /\ f.ops = <<"ellipse", "spline", "spline">>
                        /\ PassShapes(f) = <<"ellipse", "ellipse">>
                   [] OTHER -> f.ops = <<>>
              /\ f.captured <=> f.nth = 201
        /\ a.snapshots = IF a.frames > 201 THEN 1 ELSE 0
        /\ a.status = "exited" => a.frames = 202 /\ a.saved = 1
        /\ \A nth \in 202..(201 + MaxBeyond) :
              /\ aeye_update(a.model, nth, overflow_checks)
                    = [a.model EXCEPT !.draw = <<>>]
              /\ ~aeye_captures(nth)

\* A run that went through the 202 frames, saved its image and exited.
C7_Witness ==
    \E r \in Runs :
        /\ aeye[r].status = "exited"
        /\ Len(aeye[r].log) = 202
        /\ aeye[r].log[202].captured
        /\ aeye[r].saved = 1

\* The iris frames logged by run r.
IrisFrames(r) == {k \in 1..Len(aeye[r].log) : aeye[r].log[k].nth \in 1..200}

IndexSet(f) == {f.passes[1].i_lines[j] : j \in 1..Len(f.passes[1].i_lines)}

\* C8 as stated: across the iris frames the stroke index is global: a
\* stroke of a later frame never uses an index used by a stroke of an
\* earlier frame.
C8_GlobalIndex ==
    \A r \in Runs :
        \A j, k \in IrisFrames(r) :
            j < k => IndexSet(aeye[r].log[j]) \cap IndexSet(aeye[r].log[k]) = {}

\* C8 (amended): the stroke index is local to a draw_spline call: the
\* strokes of every spline pass, of an iris frame or of any other frame,
\* are indexed 0, 1, .. n_lines - 1, so every iris frame starts again at 0.
C8_LocalIndex ==
    /\ \A r \in Runs :
          \A k \in 1..Len(aeye[r].log) :
             \A j \in 1..Len(aeye[r].log[k].passes) :
                LET pass == aeye[r].log[k].passes[j] IN
                /\ Len(pass.i_lines) = pass.n_lines
                /\ \A i \in 1..pass.n_lines : pass.i_lines[i] = i - 1
    /\ \A r \in Runs :
          \A k \in 1..Len(aeye[r].model.draw) :
             LET c == aeye[r].model.draw[k] IN
             c.op = "spline" =>
                \A i \in 1..Len(c.lines) :
                   /\ c.lines[i].i_line = i - 1
                   /\ c.lines[i].noise_z = <<2 * (i - 1), 2 * (i - 1) + 1>>

\* Two iris frames of a run, both of more than one stroke, both from 0.
C8_Witness ==
    \E r \in Runs :
        /\ {2, 3} \subseteq IrisFrames(r)
        /\ aeye[r].log[2].passes[1].i_lines = aeye[r].log[3].passes[1].i_lines
        /\ Len(aeye[r].log[3].passes[1].i_lines) >= 2

Min(a, b) == IF a < b THEN a ELSE b

SplineLines(draw) ==
    UNION {{draw[k].lines[i] : i \in 1..Len(draw[k].lines)} :
             k \in {j \in 1..Len(draw) : draw[j].op = "spline"}}

GoodSpline(line) ==
    /\ line.n_ctrl >= SPLINE_DEGREE + 1
    /\ line.n_knots = line.n_ctrl + SPLINE_DEGREE + 1

\* C10: at every spline construction of either program there are at least
\* SPLINE_DEGREE + 1 = 5 control points and the knot vector has
\* SPLINE_DEGREE + 1 entries more than there are control points; neither
\* program ends in a panic; and whatever the generator returns for an iris
\* frame's control-point count (tried on every state of the generator,
\* before the first frame), the count is in 10..19 and set_knots returns
\* the vector of that length.
C10_SplineShape ==
    /\ \A r \in Runs :
          /\ aeye[r].status # "panicked"
          /\ \A line \in SplineLines(aeye[r].model.draw) : GoodSpline(line)
          /\ \A k \in 1..Len(aeye[r].log) :
                \A j \in 1..Len(aeye[r].log[k].passes) :
                   LET pass == aeye[r].log[k].passes[j] IN
                   /\ pass.n_ctrl >= SPLINE_DEGREE + 1
                   /\ pass.n_knots = pass.n_ctrl + SPLINE_DEGREE + 1
    /\ sand.status # "panicked"
    /\ \A line \in SplineLines(sand.draw) : GoodSpline(line)
    /\ (\A r \in Runs : aeye[r].frames = 0) =>
       \A s \in 0..(RngMod - 1) :
          LET n == iris_n_control_points(gen_f32([s |-> s, n |-> 0]).v)
              knots == set_knots(<<F32_ZERO, f32_from_usize(n)>>,
                                 SPLINE_DEGREE, n, overflow_checks)
          IN  /\ n \in 10..19
              /\ knots.status = "ok"
              /\ Len(knots.knots) = n + SPLINE_DEGREE + 1

\* Both programs have built splines: aeye an iris frame's and the two
\* pupil passes', sand_spline a frame's.
C10_Witness ==
    /\ \E r \in Runs :
          /\ Len(aeye[r].log) = 202
          /\ Len(aeye[r].log[202].passes) = 2
          /\ aeye[r].log[202].passes[2].n_ctrl = 10
          /\ aeye[r].log[5].passes[1].n_knots >= 15
          /\ SplineLines(aeye[r].model.draw) # {}
    /\ sand.frames >= 1
    /\ SplineLines(sand.draw) # {}

=============================================================================
